---------------------------- MODULE Spec2Model ----------------------------
(***************************************************************************)
(* The TTS test client of index-tts (test_client.py): the AudioPlayer     *)
(* with its worker threads, play_queue, cached_segments and               *)
(* expected_segment_id, and the caller thread that runs reset(),          *)
(* add_to_queue() and test_tts().                                          *)
(*                                                                         *)
(* An audio result is identified by the pair <<segment id, submission>>,  *)
(* the submission being the number of reset() calls that had returned     *)
(* when the text was submitted.                                            *)
(***************************************************************************)
EXTENDS Integers, Sequences, FiniteSets

\* Largest number of segments of one submission made through add_to_queue.
MaxSeg == 3
\* Largest number of reset() calls in one run.
MaxResets == 1
\* Largest number of playbacks that raise between two resets.
MaxFail == 1
\* Largest number of pieces (see Tokens) of a text given to test_tts, hence
\* the largest number of segments of a text.
MaxText == 4
\* Largest number of test_tts calls in one run.
MaxCalls == 1

VARIABLES
    play_queue,           \* PriorityQueue: set of items [id, sub]
    expected_segment_id,  \* self.expected_segment_id
    cached_segments,      \* dict: segment id -> submission of the cached audio
    currently_playing,    \* self.currently_playing
    pc,                   \* position of every _play_worker thread
    item,                 \* the (audio_data, segment_id) a worker holds
    mpc,                  \* position of the caller (main) thread
    resets,               \* number of reset() calls that have returned
    handed,               \* results given to add_to_queue (test_tts: by this call)
    failed,               \* results whose synthesis request failed (likewise)
    log,                  \* history: render attempts since the last reset()
    ret,                  \* where the caller continues when reset() returns
    nsegs,                \* test_tts: len(segments) of the text submitted
    seg,                  \* test_tts: the loop variable i
    status,               \* test_tts: what came back for each request
    reqlog,               \* history: the requests test_tts issued, in order
    text,                 \* test_tts: the text entered, a sequence of characters
    segments,             \* test_tts: the list split_text returned
    sent,                 \* history: the "text" field of every request issued
    reported              \* history: "无法分割文本" was printed

vars == <<play_queue, expected_segment_id, cached_segments, currently_playing,
          pc, item, mpc, resets, handed, failed, log,
          ret, nsegs, seg, status, reqlog, text, segments, sent, reported>>

\* The variables of test_tts.
tvars == <<ret, nsegs, seg, status, reqlog, text, segments, sent, reported>>

\* One thread per AudioPlayer.__init__ and per reset(): thread w is started
\* by the w-th reset (thread 0 by the constructor). Every test_tts call
\* makes one reset() call.
Workers == 0..(IF MaxResets > MaxCalls THEN MaxResets ELSE MaxCalls)
SegIds == 1..MaxSeg
NoItem == [id |-> 0, sub |-> 0]
Result(i, s) == [id |-> i, sub |-> s]

\* The segment ids of a set of results.
Ids(S) == {r.id : r \in S}

\* PriorityQueue.get(): the entries with the smallest segment id; entries of
\* equal id are ordered by their audio bytes, which the model leaves open.
QueueHeads == {r \in play_queue : \A q \in play_queue : r.id <= q.id}

\* def add_to_queue(self, audio_data, segment_id)
add_to_queue(r) == play_queue' = play_queue \cup {r}

\* The outcomes of one playback: TRUE when sd.play starts the rendering, FALSE
\* when sf.read or sd.play raises.
Failures == Cardinality({k \in DOMAIN log : ~log[k].ok})
PlayOutcomes == IF Failures < MaxFail THEN BOOLEAN ELSE {TRUE}

LogEntry(r, ok) == [id |-> r.id, sub |-> r.sub, ok |-> ok]

Init ==
    /\ play_queue = {}
    /\ expected_segment_id = 1
    /\ cached_segments = <<>>
    /\ currently_playing = FALSE
    /\ pc = [w \in Workers |-> IF w = 0 THEN "get" ELSE "off"]
    /\ item = [w \in Workers |-> NoItem]
    /\ mpc = "idle"
    /\ resets = 0
    /\ handed = {}
    /\ failed = {}
    /\ log = <<>>
    /\ ret = "idle"
    /\ nsegs = 0
    /\ seg = 0
    /\ status = [i \in 1..MaxText |-> "none"]
    /\ reqlog = <<>>
    /\ text = <<>>
    /\ segments = <<>>
    /\ sent = <<>>
    /\ reported = FALSE

----------------------------------------------------------------------------
(* _play_worker, one action per statement that touches shared state        *)

\* _, (audio_data, segment_id) = self.play_queue.get()
WGet(w) ==
    /\ pc[w] = "get"
    /\ \E r \in QueueHeads :
        /\ play_queue' = play_queue \ {r}
        /\ item' = [item EXCEPT ![w] = r]
    /\ pc' = [pc EXCEPT ![w] = "cmp"]
    /\ UNCHANGED <<expected_segment_id, cached_segments, currently_playing,
                   mpc, resets, handed, failed, log,
                   tvars>>

\* Mutant: the comparison accepts any segment that is not behind.
IsExpectedOrLater(w) == item[w].id >= expected_segment_id

\* if segment_id != self.expected_segment_id
IsExpected(w) == item[w].id = expected_segment_id

WCompare(w) ==
    /\ pc[w] = "cmp"
    /\ pc' = [pc EXCEPT ![w] = IF IsExpected(w) THEN "flag" ELSE "cache"]
    /\ UNCHANGED <<play_queue, expected_segment_id, cached_segments,
                   currently_playing, item, mpc, resets, handed, failed, log,
                   tvars>>

\* Mutant: a segment that is not the expected one is dropped, not cached.
WCacheDropped(w) ==
    /\ pc[w] = "cache"
    /\ item' = [item EXCEPT ![w] = NoItem]
    /\ pc' = [pc EXCEPT ![w] = "get"]
    /\ UNCHANGED <<play_queue, expected_segment_id, cached_segments,
                   currently_playing, mpc, resets, handed, failed, log,
                   tvars>>

\* self.cached_segments[segment_id] = audio_data; task_done(); continue
WCache(w) ==
    /\ pc[w] = "cache"
    /\ cached_segments' =
         [k \in DOMAIN cached_segments \cup {item[w].id} |->
            IF k = item[w].id THEN item[w].sub ELSE cached_segments[k]]
    /\ item' = [item EXCEPT ![w] = NoItem]
    /\ pc' = [pc EXCEPT ![w] = "get"]
    /\ UNCHANGED <<play_queue, expected_segment_id, currently_playing,
                   mpc, resets, handed, failed, log,
                   tvars>>

\* self.currently_playing = True
WSetPlaying(w) ==
    /\ pc[w] = "flag"
    /\ currently_playing' = TRUE
    /\ pc' = [pc EXCEPT ![w] = "play"]
    /\ UNCHANGED <<play_queue, expected_segment_id, cached_segments,
                   item, mpc, resets, handed, failed, log,
                   tvars>>

\* Mutant: a playback that raises skips the increment.
AfterFailureNoIncrement(from) == "chk"

\* Where the worker goes when sf.read or sd.play raises: the except clause
\* prints and control falls into the finally block (queue path) or to the
\* increment after the inner try (drain path).
AfterFailure(from) == IF from = "play" THEN "fin" ELSE "dinc"

\* audio, sample_rate = sf.read(...); sd.play(audio, sample_rate)
\* Either the decode or the device raises, or the rendering starts.
WPlay(w) ==
    /\ pc[w] \in {"play", "dplay"}
    /\ \E ok \in PlayOutcomes :
        /\ log' = Append(log, LogEntry(item[w], ok))
        /\ pc' = [pc EXCEPT ![w] =
                    IF ok THEN (IF pc[w] = "play" THEN "wait" ELSE "dwait")
                    ELSE AfterFailure(pc[w])]
    /\ UNCHANGED <<play_queue, expected_segment_id, cached_segments,
                   currently_playing, item, mpc, resets, handed, failed,
                   tvars>>

\* sd.wait() returns (the playback ended or was stopped) or raises.
WWait(w) ==
    /\ pc[w] \in {"wait", "dwait"}
    /\ pc' = [pc EXCEPT ![w] = IF pc[w] = "wait" THEN "fin" ELSE "dinc"]
    /\ UNCHANGED <<play_queue, expected_segment_id, cached_segments,
                   currently_playing, item, mpc, resets, handed, failed, log,
                   tvars>>

\* finally: self.currently_playing = False; self.play_queue.task_done()
WFinally(w) ==
    /\ pc[w] = "fin"
    /\ currently_playing' = FALSE
    /\ pc' = [pc EXCEPT ![w] = "inc"]
    /\ UNCHANGED <<play_queue, expected_segment_id, cached_segments,
                   item, mpc, resets, handed, failed, log,
                   tvars>>

\* self.expected_segment_id += 1   (lines 49 and 60)
WIncrement(w) ==
    /\ pc[w] \in {"inc", "dinc"}
    /\ expected_segment_id' = expected_segment_id + 1
    /\ item' = [item EXCEPT ![w] = NoItem]
    /\ pc' = [pc EXCEPT ![w] = "chk"]
    /\ UNCHANGED <<play_queue, cached_segments, currently_playing,
                   mpc, resets, handed, failed, log,
                   tvars>>

\* Mutant: no cascading drain, the worker returns to the queue at once.
WDrainCheckNever(w) ==
    /\ pc[w] = "chk"
    /\ pc' = [pc EXCEPT ![w] = "get"]
    /\ UNCHANGED <<play_queue, expected_segment_id, cached_segments,
                   currently_playing, item, mpc, resets, handed, failed, log,
                   tvars>>

\* while self.expected_segment_id in self.cached_segments
WDrainCheck(w) ==
    /\ pc[w] = "chk"
    /\ pc' = [pc EXCEPT ![w] =
                IF expected_segment_id \in DOMAIN cached_segments
                THEN "pop" ELSE "get"]
    /\ UNCHANGED <<play_queue, expected_segment_id, cached_segments,
                   currently_playing, item, mpc, resets, handed, failed, log,
                   tvars>>

\* cached_audio = self.cached_segments.pop(self.expected_segment_id)
\* The key is read again: when another thread has popped it meanwhile, pop
\* raises KeyError inside the finally block and the thread ends.
WDrainPop(w) ==
    /\ pc[w] = "pop"
    /\ IF expected_segment_id \in DOMAIN cached_segments
       THEN /\ item' = [item EXCEPT ![w] =
                   Result(expected_segment_id,
                          cached_segments[expected_segment_id])]
            /\ cached_segments' =
                 [k \in DOMAIN cached_segments \ {expected_segment_id} |->
                    cached_segments[k]]
            /\ pc' = [pc EXCEPT ![w] = "dplay"]
       ELSE /\ pc' = [pc EXCEPT ![w] = "dead"]
            /\ UNCHANGED <<item, cached_segments,
                   tvars>>
    /\ UNCHANGED <<play_queue, expected_segment_id, currently_playing,
                   mpc, resets, handed, failed, log,
                   tvars>>

Worker(w) ==
    \/ WGet(w)
    \/ WCompare(w)
    \/ WCache(w)
    \/ WSetPlaying(w)
    \/ WPlay(w)
    \/ WWait(w)
    \/ WFinally(w)
    \/ WIncrement(w)
    \/ WDrainCheck(w)
    \/ WDrainPop(w)

----------------------------------------------------------------------------
(* The caller thread: add_to_queue and reset                               *)

\* A synthesis request that fails (exception or non-200 status): its result
\* is never given to add_to_queue.
SynthFail ==
    /\ mpc = "idle"
    /\ \E i \in SegIds :
        /\ Result(i, resets) \notin handed \cup failed
        /\ failed' = failed \cup {Result(i, resets)}
    /\ UNCHANGED <<play_queue, expected_segment_id, cached_segments,
                   currently_playing, pc, item, mpc, resets, handed, log,
                   tvars>>

\* player.add_to_queue(response.content, i) for a result of the current
\* submission, in any order.
AddToQueue ==
    /\ mpc = "idle"
    /\ \E i \in SegIds :
        /\ Result(i, resets) \notin handed \cup failed
        /\ add_to_queue(Result(i, resets))
        /\ handed' = handed \cup {Result(i, resets)}
    /\ UNCHANGED <<expected_segment_id, cached_segments, currently_playing,
                   pc, item, mpc, resets, failed, log,
                   tvars>>

\* add_to_queue for a result of an earlier submission (a response that was
\* still outstanding when reset() ran).
AddStale ==
    /\ mpc = "idle"
    /\ \E i \in SegIds, s \in 0..(resets - 1) :
        /\ Result(i, s) \notin handed \cup failed
        /\ add_to_queue(Result(i, s))
        /\ handed' = handed \cup {Result(i, s)}
    /\ UNCHANGED <<expected_segment_id, cached_segments, currently_playing,
                   pc, item, mpc, resets, failed, log,
                   tvars>>

\* sd.stop(): the playback in progress is stopped, so a thread blocked in
\* sd.wait() returns from it.
sd_stop == pc' = [w \in Workers |->
                    IF pc[w] = "wait" THEN "fin"
                    ELSE IF pc[w] = "dwait" THEN "dinc" ELSE pc[w]]

\* The caller invokes player.reset().
CallReset ==
    /\ mpc = "idle"
    /\ resets < MaxResets
    /\ mpc' = "r_stop"
    /\ ret' = "idle"
    /\ UNCHANGED <<play_queue, expected_segment_id, cached_segments,
                   currently_playing, pc, item, resets, handed, failed, log,
                   nsegs, seg, status, reqlog, text, segments, sent,
                   reported>>

\* reset(): sd.stop()
ResetStop ==
    /\ mpc = "r_stop"
    /\ sd_stop
    /\ mpc' = "r_drain"
    /\ UNCHANGED <<play_queue, expected_segment_id, cached_segments,
                   currently_playing, item, resets, handed, failed, log,
                   tvars>>

\* while not self.play_queue.empty(): get_nowait(); task_done()
\* followed, once the queue is seen empty, by self.expected_segment_id = 1
ResetDrain ==
    /\ mpc = "r_drain"
    /\ IF play_queue # {}
       THEN /\ \E r \in QueueHeads : play_queue' = play_queue \ {r}
            /\ UNCHANGED <<expected_segment_id, mpc,
                   tvars>>
       ELSE /\ expected_segment_id' = 1
            /\ mpc' = "r_clear"
            /\ UNCHANGED play_queue
    /\ UNCHANGED <<cached_segments, currently_playing, pc, item, resets,
                   handed, failed, log,
                   tvars>>

\* self.cached_segments.clear(); self.currently_playing = False
ResetClear ==
    /\ mpc = "r_clear"
    /\ cached_segments' = <<>>
    /\ currently_playing' = FALSE
    /\ mpc' = "r_spawn"
    /\ UNCHANGED <<play_queue, expected_segment_id, pc, item, resets,
                   handed, failed, log,
                   tvars>>

\* if self.worker.is_alive(): self.worker.join(timeout=0.1)
\* self.worker = Thread(target=self._play_worker); self.worker.start()
\* The join gives up after 0.1 s; the previous thread keeps running.
ResetSpawn ==
    /\ mpc = "r_spawn"
    /\ resets' = resets + 1
    /\ pc' = [pc EXCEPT ![resets + 1] = "get"]
    /\ mpc' = ret
    /\ log' = <<>>
    /\ UNCHANGED <<play_queue, expected_segment_id, cached_segments,
                   currently_playing, item, handed, failed,
                   tvars>>

Reset == ResetStop \/ ResetDrain \/ ResetClear \/ ResetSpawn

----------------------------------------------------------------------------
(* split_text(text). A text is a sequence of characters; a character is    *)
(* written as a string, a non-ASCII one as its code point ("u3002" is the  *)
(* ideographic full stop).                                                  *)

\* if len(buffer) >= 20: the length from which a buffer becomes a segment.
MinLen == 20

\* The character class [。！？；，\.\!\?;] of both regular expressions.
Punctuation == {"u3002", "uFF01", "uFF1F", "uFF1B", "uFF0C", ".", "!", "?", ";"}

\* What str.strip() removes, as far as the texts of the model go.
Whitespace == {" ", "\n"}

\* A sentence of exactly MinLen characters.
Sentence == [k \in 1..MinLen |-> IF k < MinLen THEN "a" ELSE "."]

\* The pieces the texts of the model are put together from.
Tokens == {<<"a">>, <<".">>, <<" ">>, <<"\n">>, Sentence}

RECURSIVE TextsOf(_)
TextsOf(n) ==
    IF n = 0 THEN {<<>>}
    ELSE {t \o k : t \in TextsOf(n - 1), k \in Tokens}

\* The texts given to test_tts: at most MaxText pieces. The empty text is
\* one of them: the prompt loop does not pass it on, test_tts accepts it.
Texts == UNION {TextsOf(n) : n \in 0..MaxText}

\* not s.strip()
Blank(s) == \A k \in DOMAIN s : s[k] \in Whitespace

\* The position of the first character of s that is in C, 0 if there is none.
FirstIn(s, C) ==
    IF \E k \in DOMAIN s : s[k] \in C
    THEN CHOOSE k \in DOMAIN s :
            s[k] \in C /\ \A j \in 1..(k - 1) : s[j] \notin C
    ELSE 0

\* re.search(r'[。！？；，\.\!\?;]$', text): $ matches at the end of the text
\* and also just before a newline that ends the text.
EndsWithPunctuation(t) ==
    /\ t # <<>>
    /\ \/ t[Len(t)] \in Punctuation
       \/ t[Len(t)] = "\n" /\ Len(t) > 1 /\ t[Len(t) - 1] \in Punctuation

\* if text and not re.search(...): text += '。'
Terminated(t) ==
    IF t # <<>> /\ ~EndsWithPunctuation(t) THEN Append(t, "u3002") ELSE t

\* text.split('\n')
RECURSIVE Paragraphs(_)
Paragraphs(t) ==
    LET k == FirstIn(t, {"\n"})
    IN  IF k = 0 THEN <<t>>
        ELSE <<SubSeq(t, 1, k - 1)>> \o Paragraphs(SubSeq(t, k + 1, Len(t)))

\* re.split(punctuation_pattern, para): the pattern is one capturing group,
\* so the list alternates text and punctuation mark and ends with text.
RECURSIVE Parts(_)
Parts(para) ==
    LET k == FirstIn(para, Punctuation)
    IN  IF k = 0 THEN <<para>>
        ELSE <<SubSeq(para, 1, k - 1), <<para[k]>>>>
             \o Parts(SubSeq(para, k + 1, Len(para)))

\* for i in range(0, len(parts)-1, 2): one turn for the index i (counted from
\* 0 as in the code; parts[i] of the code is parts[i + 1] here) and the turns
\* after it. st holds the locals segments and buffer.
RECURSIVE PartsLoop(_, _, _)
PartsLoop(parts, i, st) ==
    IF i >= Len(parts) - 1 THEN st
    ELSE LET segment == parts[i + 1]
                        \o (IF i + 1 < Len(parts) THEN parts[i + 2] ELSE <<>>)
             buffer == st.buffer \o segment
         IN  IF Blank(segment) THEN PartsLoop(parts, i + 2, st)
             ELSE IF Len(buffer) >= MinLen \/ i + 2 >= Len(parts)
             THEN PartsLoop(parts, i + 2,
                            [segments |-> Append(st.segments, buffer),
                             buffer |-> <<>>])
             ELSE PartsLoop(parts, i + 2,
                            [segments |-> st.segments, buffer |-> buffer])

\* for para in paragraphs: the turn of paragraph k and the turns after it.
RECURSIVE ParagraphsLoop(_, _, _)
ParagraphsLoop(paragraphs, k, st) ==
    IF k > Len(paragraphs) THEN st
    ELSE IF Blank(paragraphs[k]) THEN ParagraphsLoop(paragraphs, k + 1, st)
    ELSE ParagraphsLoop(paragraphs, k + 1,
                        PartsLoop(Parts(paragraphs[k]), 0, st))

\* Mutant: the buffer is appended without the test "if buffer".
RemainderAlways(st) == Append(st.segments, st.buffer)

\* if buffer: segments.append(buffer)
\* return segments
Remainder(st) ==
    IF st.buffer # <<>> THEN Append(st.segments, st.buffer) ELSE st.segments

split_text(t) ==
    Remainder(ParagraphsLoop(Paragraphs(Terminated(t)), 1,
                             [segments |-> <<>>, buffer |-> <<>>]))

----------------------------------------------------------------------------
(* test_tts(text, api_url), run by the caller thread                        *)

\* What a synthesis request can come back with: a response with status 200,
\* a response with another status, or an exception.
Outcomes == {"200", "non200", "exc"}

\* range(1, min(3, len(segments)+1)): the last segment of the first loop.
FastEnd == IF nsegs < 2 THEN nsegs ELSE 2

\* Where test_tts continues after the request of segment i is dealt with:
\* the next turn of the same loop, then send_segments for 3..len(segments),
\* then the return to the prompt.
AfterSegment(i) ==
    IF i < FastEnd THEN [mpc |-> "t_fast", seg |-> i + 1]
    ELSE IF i < nsegs THEN [mpc |-> "t_async", seg |-> i + 1]
    ELSE [mpc |-> "idle", seg |-> 0]

\* test_tts(text, api_url) is called. The histories start again; which text
\* it is called with is settled where the text is first read, in TSplit.
TStart ==
    /\ mpc = "idle"
    /\ resets < MaxCalls
    /\ text' = <<>>
    /\ segments' = <<>>
    /\ handed' = {}
    /\ failed' = {}
    /\ nsegs' = 0
    /\ seg' = 0
    /\ status' = [i \in 1..MaxText |-> "none"]
    /\ reqlog' = <<>>
    /\ sent' = <<>>
    /\ reported' = FALSE
    /\ ret' = "t_split"
    /\ mpc' = "t_wait"
    /\ UNCHANGED <<play_queue, expected_segment_id, cached_segments,
                   currently_playing, pc, item, resets, log>>

\* while player.currently_playing: time.sleep(0.1)
\* player.reset()
TWait ==
    /\ mpc = "t_wait"
    /\ ~currently_playing
    /\ mpc' = "r_stop"
    /\ UNCHANGED <<play_queue, expected_segment_id, cached_segments,
                   currently_playing, pc, item, resets, handed, failed, log,
                   tvars>>

\* Mutant: the test "if not segments" is left out; an empty list then runs
\* through both loops without a turn.
TSplitNoCheck ==
    /\ mpc = "t_split"
    /\ text' \in Texts
    /\ segments' = split_text(text')
    /\ nsegs' = Len(segments')
    /\ IF segments' = <<>>
       THEN mpc' = "idle" /\ seg' = 0
       ELSE mpc' = "t_fast" /\ seg' = 1
    /\ UNCHANGED <<play_queue, expected_segment_id, cached_segments,
                   currently_playing, pc, item, resets, handed, failed, log,
                   ret, status, reqlog, sent, reported>>

\* segments = split_text(text), for any text the user may have entered
\* if not segments: print("无法分割文本"); return
TSplit ==
    /\ mpc = "t_split"
    /\ text' \in Texts
    /\ segments' = split_text(text')
    /\ nsegs' = Len(segments')
    /\ IF segments' = <<>>
       THEN mpc' = "idle" /\ seg' = 0 /\ reported' = TRUE
       ELSE mpc' = "t_fast" /\ seg' = 1 /\ UNCHANGED reported
    /\ UNCHANGED <<play_queue, expected_segment_id, cached_segments,
                   currently_playing, pc, item, resets, handed, failed, log,
                   ret, status, reqlog, sent>>

\* Mutant: the request is sent and the loop goes on without its response.
TFastPostNoWait ==
    /\ mpc = "t_fast"
    /\ reqlog' = Append(reqlog, seg)
    /\ sent' = Append(sent, segments[seg])
    /\ mpc' = AfterSegment(seg).mpc
    /\ seg' = AfterSegment(seg).seg
    /\ UNCHANGED <<play_queue, expected_segment_id, cached_segments,
                   currently_playing, pc, item, resets, handed, failed, log,
                   ret, nsegs, status, text, segments, reported>>

\* requests.post(api_url, ...) for segment i of the first loop
TFastPost ==
    /\ mpc = "t_fast"
    /\ reqlog' = Append(reqlog, seg)
    /\ sent' = Append(sent, segments[seg])
    /\ mpc' = "t_fpost"
    /\ UNCHANGED <<play_queue, expected_segment_id, cached_segments,
                   currently_playing, pc, item, resets, handed, failed, log,
                   ret, nsegs, seg, status, text, segments, reported>>

\* Mutant: a request that fails ends test_tts (the except clause of the
\* whole function instead of the one inside the loop).
TFastResponseAbort ==
    /\ mpc = "t_fpost"
    /\ \E st \in Outcomes :
        /\ status' = [status EXCEPT ![seg] = st]
        /\ IF st = "200"
           THEN /\ add_to_queue(Result(seg, resets))
                /\ handed' = handed \cup {Result(seg, resets)}
                /\ mpc' = AfterSegment(seg).mpc
                /\ seg' = AfterSegment(seg).seg
                /\ UNCHANGED failed
           ELSE /\ failed' = failed \cup {Result(seg, resets)}
                /\ mpc' = "idle"
                /\ seg' = 0
                /\ UNCHANGED <<play_queue, handed>>
    /\ UNCHANGED <<expected_segment_id, cached_segments, currently_playing,
                   pc, item, resets, log, ret, nsegs, reqlog,
                   text, segments, sent, reported>>

\* The request returns: status 200 gives player.add_to_queue(response.content,
\* i); another status is printed; an exception is caught and printed.
TFastResponse ==
    /\ mpc = "t_fpost"
    /\ \E st \in Outcomes :
        /\ status' = [status EXCEPT ![seg] = st]
        /\ IF st = "200"
           THEN /\ add_to_queue(Result(seg, resets))
                /\ handed' = handed \cup {Result(seg, resets)}
                /\ UNCHANGED failed
           ELSE /\ failed' = failed \cup {Result(seg, resets)}
                /\ UNCHANGED <<play_queue, handed>>
    /\ mpc' = AfterSegment(seg).mpc
    /\ seg' = AfterSegment(seg).seg
    /\ UNCHANGED <<expected_segment_id, cached_segments, currently_playing,
                   pc, item, resets, log, ret, nsegs, reqlog,
                   text, segments, sent, reported>>

\* send_segments: async with session.post(api_url, ...) as response
TAsyncPost ==
    /\ mpc = "t_async"
    /\ reqlog' = Append(reqlog, seg)
    /\ sent' = Append(sent, segments[seg])
    /\ mpc' = "t_apost"
    /\ UNCHANGED <<play_queue, expected_segment_id, cached_segments,
                   currently_playing, pc, item, resets, handed, failed, log,
                   ret, nsegs, seg, status, text, segments, reported>>

\* The coroutine is resumed with the response, or with an exception. With
\* status 200 it goes on to await response.read().
TAsyncResponse ==
    /\ mpc = "t_apost"
    /\ \E st \in Outcomes :
        /\ status' = [status EXCEPT ![seg] = st]
        /\ IF st = "200"
           THEN /\ mpc' = "t_aread"
                /\ UNCHANGED <<seg, failed>>
           ELSE /\ failed' = failed \cup {Result(seg, resets)}
                /\ mpc' = AfterSegment(seg).mpc
                /\ seg' = AfterSegment(seg).seg
    /\ UNCHANGED <<play_queue, expected_segment_id, cached_segments,
                   currently_playing, pc, item, resets, handed, log,
                   ret, nsegs, reqlog, text, segments, sent, reported>>

\* player.add_to_queue(await response.read(), i): the body arrives and the
\* result is handed over, or reading it raises and the except clause prints.
TAsyncRead ==
    /\ mpc = "t_aread"
    /\ \E ok \in BOOLEAN :
        IF ok
        THEN /\ add_to_queue(Result(seg, resets))
             /\ handed' = handed \cup {Result(seg, resets)}
             /\ UNCHANGED failed
        ELSE /\ failed' = failed \cup {Result(seg, resets)}
             /\ UNCHANGED <<play_queue, handed>>
    /\ mpc' = AfterSegment(seg).mpc
    /\ seg' = AfterSegment(seg).seg
    /\ UNCHANGED <<expected_segment_id, cached_segments, currently_playing,
                   pc, item, resets, log, ret, nsegs, status, reqlog,
                   text, segments, sent, reported>>

test_tts ==
    \/ TStart
    \/ TWait
    \/ Reset
    \/ TSplit
    \/ TFastPost
    \/ TFastResponse
    \/ TAsyncPost
    \/ TAsyncResponse
    \/ TAsyncRead

----------------------------------------------------------------------------
\* The player under any sequence of add_to_queue and reset() calls.
Next ==
    \/ \E w \in Workers : Worker(w)
    \/ AddToQueue
    \/ AddStale
    \/ CallReset
    \/ Reset

Spec == Init /\ [][Next]_vars

----------------------------------------------------------------------------
\* The client program: the prompt loop calls test_tts for one text after the
\* other, next to the worker threads of the player.
NextClient ==
    \/ \E w \in Workers : Worker(w)
    \/ test_tts

Client == Init /\ [][NextClient]_vars

\* The caller thread alone. The worker threads write none of the variables
\* test_tts writes, and test_tts reads of theirs only currently_playing, in
\* a guard (TWait): every run of Client is, on the caller's variables, a run
\* of Dispatch.
Dispatch == Init /\ [][test_tts]_vars

----------------------------------------------------------------------------
(* One submission to a freshly constructed player: reset() is never called, *)
(* the results arrive in any order and any of the synthesis requests may    *)
(* fail. The worker is a daemon thread the scheduler keeps running.         *)

NextOne ==
    \/ Worker(0)
    \/ SynthFail
    \/ AddToQueue

OneSubmission == Init /\ [][NextOne]_vars /\ WF_vars(Worker(0))

----------------------------------------------------------------------------
(* History read-outs                                                        *)

\* The playbacks that started rendering (sd.play did not raise), in order.
Rendered == SelectSeq(log, LAMBDA e : e.ok)
\* The segment ids of all playbacks attempted since the last reset, in order.
LogIds == [k \in DOMAIN log |-> log[k].id]
\* The threads that are between sd.play and the return of sd.wait.
Rendering == {w \in Workers : pc[w] \in {"wait", "dwait"}}
UpTo(n) == [k \in 1..n |-> k]

----------------------------------------------------------------------------
\* C1: within one submission with no reset(), whatever the order in which
\* the results reach add_to_queue, the segment ids the worker renders are
\* strictly increasing (none before a smaller one, none twice), and a segment
\* is being rendered only while its id equals expected_segment_id.
C1_RenderedInOrder ==
    /\ \A a, b \in DOMAIN Rendered :
          a < b => Rendered[a].id < Rendered[b].id
    /\ \A w \in Rendering : item[w].id = expected_segment_id

\* Segment 3 arrived before segment 2 (it is played from the cache, in the
\* cascading drain) and is rendered after segments 1 and 2.
C1_Witness ==
    /\ pc[0] = "dwait"
    /\ item[0].id = 3
    /\ Len(Rendered) = 3

----------------------------------------------------------------------------
\* C2: when the results of all segments 1..MaxSeg have been given to
\* add_to_queue, in whatever order, and reset() is not called, the worker
\* eventually has played every segment in the order 1, 2, ..., MaxSeg and
\* rests with expected_segment_id = MaxSeg + 1, an empty play_queue and an
\* empty cached_segments.
AllHanded == Ids(handed) = SegIds
AllPlayed ==
    /\ LogIds = UpTo(MaxSeg)
    /\ expected_segment_id = MaxSeg + 1
    /\ play_queue = {}
    /\ DOMAIN cached_segments = {}
    /\ pc[0] = "get"

C2_AllPlayedInOrder == AllHanded ~> AllPlayed

\* All results were handed over and every one of them has been rendered.
C2_Witness ==
    /\ AllPlayed
    /\ Len(Rendered) = MaxSeg

----------------------------------------------------------------------------
\* C6: when the synthesis request of segment k fails, all others succeed and
\* reset() is not called, no segment with id >= k is ever played, and the
\* player ends up, for ever, with segments 1..k-1 played,
\* expected_segment_id = k and every later result in cached_segments.
OnlyFailed(k) ==
    /\ Ids(failed) = {k}
    /\ Ids(handed) = SegIds \ {k}
StalledAt(k) ==
    /\ LogIds = UpTo(k - 1)
    /\ expected_segment_id = k
    /\ play_queue = {}
    /\ DOMAIN cached_segments = (k + 1)..MaxSeg
    /\ pc[0] = "get"

C6_StallsAtFailedSegment ==
    \A k \in SegIds :
        /\ [](k \in Ids(failed) =>
                /\ \A e \in DOMAIN log : log[e].id < k
                /\ expected_segment_id <= k)
        /\ (OnlyFailed(k) ~> []StalledAt(k))

\* Segment 2 failed; segment 1 was played and segment 3 waits in the cache.
C6_Witness ==
    /\ OnlyFailed(2)
    /\ StalledAt(2)
    /\ Len(Rendered) = 1

----------------------------------------------------------------------------
\* C7: a playback that raises (sf.read, sd.play or sd.wait, for a segment
\* from play_queue or from cached_segments) is caught: the worker stays
\* alive, expected_segment_id still advances by exactly one for that segment
\* (it always counts the playbacks attempted, failed ones included), and the
\* segments keep being played in order.
Playing(w) == pc[w] \in {"wait", "dwait", "fin", "inc", "dinc"}

C7_FailureStillAdvances ==
    /\ pc[0] # "dead"
    /\ LogIds = UpTo(Len(log))
    /\ expected_segment_id = Len(log) + (IF Playing(0) THEN 0 ELSE 1)

\* The playback of one segment raised and the next segment was rendered.
C7_Witness ==
    \E k \in DOMAIN log :
        /\ ~log[k].ok
        /\ k + 1 \in DOMAIN log
        /\ log[k + 1].ok
        /\ expected_segment_id = k + 2

\* The same when the playback that raised was in the cascading drain.
C7_WitnessDrain ==
    /\ pc[0] = "dinc"
    /\ Len(log) > 0
    /\ ~log[Len(log)].ok

----------------------------------------------------------------------------
\* reset() has returned and the caller is not inside another reset().
AfterReset == resets >= 1 /\ mpc = "idle"
\* Segment 1 of the current submission has been handed to the playback.
FirstPlayed == \E k \in DOMAIN log : log[k].id = 1 /\ log[k].sub = resets

\* C3: once reset() has returned, expected_segment_id is 1 and stays 1 until
\* segment 1 of the new submission has been played; no worker that was busy
\* with work from before the reset changes it.
C3_ExpectedStaysOne ==
    (AfterReset /\ ~FirstPlayed) => expected_segment_id = 1

\* C4: once reset() has returned, no result of an earlier submission is
\* played or kept in cached_segments.
C4_NoStaleAfterReset ==
    AfterReset =>
        /\ \A k \in DOMAIN log : log[k].sub = resets
        /\ \A i \in DOMAIN cached_segments : cached_segments[i] = resets

\* C5: at most one thread is between sd.play and the return of sd.wait.
C5_SerialPlayback == Cardinality(Rendering) <= 1

----------------------------------------------------------------------------
(* test_tts: the requests                                                   *)

\* The request of segment i has been issued / has come back.
Issued(i) == \E k \in DOMAIN reqlog : reqlog[k] = i
Returned(i) == status[i] # "none"
\* The request of segment i is dealt with: nothing of it is awaited any more.
Completed(i) == Returned(i) /\ ~(mpc = "t_aread" /\ seg = i)
\* The requests that were sent and are not completed.
Outstanding == {i \in 1..MaxText : Issued(i) /\ ~Completed(i)}
HandedNow(i) == Result(i, resets) \in handed
\* test_tts has returned to the prompt.
AtPrompt == mpc = "idle"

\* C8: the request of segment 2 is issued only after that of segment 1 has
\* returned, and the request of segment 3 only after those of segments 1 and
\* 2 have returned and every successful one has been given to add_to_queue.
C8_FastPathSequential ==
    /\ Issued(2) => Returned(1)
    /\ Issued(3) => \A i \in {1, 2} :
          /\ Returned(i)
          /\ status[i] = "200" => HandedNow(i)

\* Request 3 is outstanding; request 1 succeeded and request 2 failed.
C8_Witness ==
    /\ Outstanding = {3}
    /\ status[1] = "200"
    /\ status[2] = "exc"

\* C9: for segments 3..N the request of segment i+1 is issued without
\* waiting for the response of segment i: while the request of a segment
\* i < N of send_segments is outstanding, the next request can be sent.
C9_NextRequestNotBlocked ==
    (mpc \in {"t_apost", "t_aread"} /\ seg < nsegs) => ENABLED TAsyncPost

\* What the code does instead: one request at a time, results handed over in
\* the order of their segment ids.
OneRequestAtATime ==
    /\ Cardinality(Outstanding) <= 1
    /\ \A i \in 1..MaxText : Issued(i) => \A j \in 1..(i - 1) : Completed(j)

\* C10 as stated: every request is issued exactly once whatever the others
\* came back with, test_tts returns when all have completed, and a result is
\* given to add_to_queue exactly when its response has status 200.
IssuedOnceEach ==
    /\ \A i \in 1..MaxText :
          Cardinality({k \in DOMAIN reqlog : reqlog[k] = i}) <= 1
    /\ AtPrompt =>
          /\ reqlog = UpTo(nsegs)
          /\ \A i \in 1..nsegs : Completed(i)

C10_HandedIffStatus200 ==
    /\ IssuedOnceEach
    /\ \A i \in 1..MaxText :
          Completed(i) => (HandedNow(i) <=> status[i] = "200")

\* C10 amended: ... and a result is given to add_to_queue exactly when its
\* response has status 200 and, in send_segments, its body could be read.
BodyLost(i) == status[i] = "200" /\ Result(i, resets) \in failed

C10_HandedIffStatus200AndRead ==
    /\ IssuedOnceEach
    /\ \A i \in 1..MaxText :
          /\ Completed(i) =>
                (HandedNow(i) <=> (status[i] = "200" /\ ~BodyLost(i)))
          /\ BodyLost(i) => i > 2

\* test_tts has returned after four requests: the first raised, the third
\* came back with an error status, the second and fourth were handed over.
C10_Witness ==
    /\ AtPrompt
    /\ nsegs = 4
    /\ status = [i \in 1..MaxText |->
                   IF i = 1 THEN "exc" ELSE IF i = 3 THEN "non200"
                   ELSE IF i \in {2, 4} THEN "200" ELSE "none"]
    /\ HandedNow(2) /\ HandedNow(4)

----------------------------------------------------------------------------
(* C11: the segments of split_text and their numbers                        *)

\* C11: every element of the list split_text returns is a non-empty string,
\* and test_tts numbers the requests 1, 2, 3, ... without a gap in the order
\* of the list: the k-th request has number k and carries the k-th element,
\* and when test_tts returns every element has been sent.
C11_SegmentsNonEmptyNumbered ==
    /\ \A k \in DOMAIN segments : segments[k] # <<>>
    /\ Len(sent) = Len(reqlog)
    /\ \A k \in DOMAIN reqlog :
        /\ reqlog[k] = k
        /\ k \in DOMAIN segments
        /\ sent[k] = segments[k]
    /\ \A r \in handed : r.id \in DOMAIN segments
    /\ (AtPrompt /\ resets >= 1) => Len(reqlog) = Len(segments)

\* test_tts has returned for a text of several paragraphs that split_text cut
\* into three or more segments, all of them sent.
C11_Witness ==
    /\ AtPrompt
    /\ resets >= 1
    /\ Len(segments) >= 3
    /\ Len(Paragraphs(text)) >= 2
    /\ reqlog = UpTo(Len(segments))
    /\ sent = segments

----------------------------------------------------------------------------
(* C12, C13: what split_text does with the paragraphs of a text             *)

\* The paragraphs split_text does not skip, after the terminator was added.
NonBlankParagraphs(t) ==
    SelectSeq(Paragraphs(Terminated(t)), LAMBDA p : ~Blank(p))

\* The paragraphs of the text one after the other.
RECURSIVE Concat(_)
Concat(ss) == IF ss = <<>> THEN <<>> ELSE Head(ss) \o Concat(Tail(ss))

\* C12: split_text flushes its buffer at every paragraph end: when every
\* non-blank paragraph is shorter than the 20-character threshold, each of
\* them yields exactly one segment of its own. Stated for the texts whose
\* non-blank paragraphs all end with a punctuation mark, where the segment
\* of a paragraph is the whole paragraph.
C12_OneSegmentPerShortParagraph ==
    LET paras == NonBlankParagraphs(text)
    IN  (\A k \in DOMAIN paras :
            /\ Len(paras[k]) < MinLen
            /\ paras[k][Len(paras[k])] \in Punctuation)
        => segments = paras

\* C13: the segments of a text, put together in order, are the text after
\* the terminator was appended where it was missing and the newlines and
\* blank paragraphs were taken out: no character of a non-blank paragraph is
\* lost.
C13_ConcatenationIsText ==
    Concat(segments) = Concat(NonBlankParagraphs(text))

----------------------------------------------------------------------------
(* C14: a text without segments                                             *)

\* The call of split_text in the current test_tts call has returned.
PastSplit ==
    \/ mpc \in {"t_fast", "t_fpost", "t_async", "t_apost", "t_aread"}
    \/ AtPrompt /\ resets >= 1

\* C14: when split_text returns no segments, test_tts prints that the text
\* could not be split and returns; it issues no request and hands nothing to
\* add_to_queue.
C14_NoSegmentsNoDispatch ==
    (PastSplit /\ segments = <<>>)
        => /\ AtPrompt
           /\ reported
           /\ reqlog = <<>>
           /\ sent = <<>>
           /\ handed = {}
           /\ failed = {}
           /\ play_queue = {}

\* test_tts has returned from a call in which split_text gave no segment.
C14_Witness ==
    /\ AtPrompt
    /\ resets >= 1
    /\ segments = <<>>
    /\ reported
    /\ reqlog = <<>>

----------------------------------------------------------------------------
(* C15 .. C18: the player with its worker threads                           *)

\* C15: cached_segments holds only future results: none of its keys is
\* smaller than expected_segment_id (a result that arrives with a smaller
\* segment id is dropped, not stored).
C15_CacheHoldsOnlyFuture ==
    \A k \in DOMAIN cached_segments : k >= expected_segment_id

\* The threads that have been started and have not died.
Live == {w \in Workers : pc[w] \notin {"off", "dead"}}

\* C16: the comparison with expected_segment_id and the insertion into
\* cached_segments are one critical section, so whenever play_queue is empty
\* and every worker thread is blocked in play_queue.get(), the result for
\* expected_segment_id is not lying in cached_segments.
C16_NothingStranded ==
    (play_queue = {} /\ \A w \in Live : pc[w] = "get")
        => expected_segment_id \notin DOMAIN cached_segments

\* C17: exactly one _play_worker thread is alive at any time: reset()
\* replaces the worker, so the number of threads that consume play_queue
\* does not grow with the number of resets.
C17_OneWorker == Cardinality(Live) = 1

\* C18: currently_playing is True whenever a segment is being rendered, be it
\* taken from play_queue or from cached_segments in the cascading drain.
C18_FlagWhileRendering == Rendering # {} => currently_playing

=============================================================================
